---- MODULE Spec2Model ----
(***************************************************************************)
(* Model of the listings app of alx_travel_app: the Listing, Booking,      *)
(* Review and Payment tables (listings/models.py), the REST handlers that  *)
(* write them (listings/views.py with the field lists of                   *)
(* listings/serializers.py), the seed command and the Celery task queue.   *)
(*                                                                         *)
(* Every handler is modelled from the point where the IsAuthenticated      *)
(* permission has passed: the caller is one of Users.  A handler that ends *)
(* with an uncaught exception is the HTTP answer 500 (Django's default,    *)
(* autocommit: writes made before the exception stay).                     *)
(***************************************************************************)
EXTENDS Integers, FiniteSets, Sequences, TLC

VARIABLES
    listings,     \* rows of Listing
    bookings,     \* rows of Booking
    reviews,      \* rows of Review
    payments,     \* rows of Payment
    queue,        \* Celery queue: calls of send_booking_confirmation_email
    listingSeq,   \* last id given by Listing.id (BigAutoField)
    bookingSeq,   \* last id given by Booking.id
    reviewSeq,    \* last id given by Review.id
    paymentSeq,   \* last id given by Payment.id
    response      \* the answer of the last handler, with the request it answered

vars == <<listings, bookings, reviews, payments, queue,
          listingSeq, bookingSeq, reviewSeq, paymentSeq, response>>

listingVars == <<listings, bookings, reviews, queue, listingSeq, bookingSeq, reviewSeq>>

\* Python's None / SQL NULL / a key missing from the request or the JSON body,
\* where the value would be a string.
None == "None"

\* The same where the value would be a number: <<>> is None, <<n>> is the number n.
NoNumber == <<>>
Number(n) == <<n>>
Optional(S) == {NoNumber} \cup {Number(n) : n \in S}

----------------------------------------------------------------------------
(* Bounds of the model *)

MaxPayments == 2
MaxListings == 1
MaxBookings == 2

\* The largest --reviews and --bookings arguments of the seed command.
MaxSeedReviews == 2
MaxSeedBookings == 1

\* Authenticated callers (request.user): the two accounts the seed command makes,
\* which log in like any other.
HOST_USER == "host_user"
GUEST_USER == "guest_user"
Users == {HOST_USER, GUEST_USER}

\* Strings a caller or the gateway may use as booking_reference / tx_ref.
Refs == {"abc123", "xyz789"}

\* Amounts a caller may send: one that violates valid_payment_amount, one that does not.
Amounts == {-1, 100}

\* Listing titles.
Titles == {"Cabin"}

\* price_per_night values a caller may send; the negative one fails MinValueValidator.
ListingPrices == {-1, 50, 80}

\* Dates a caller may send, as day numbers.
Dates == {0, 2}

\* total_price values a caller may send; the negative one fails MinValueValidator.
TotalPrices == {-5, 0, 100}

\* rating values a caller may send; 0 and 6 fail the validators of Review.rating.
Ratings == {0, 1, 5, 6}

\* Review comments.
Comments == {"fine", "great"}

\* The seed command's draws: random.randint(30, 150) for price_per_night,
\* random.randint(2, 5) for the nights of a booking, random.randint(3, 5) for a rating.
SeedPrices == {50}
SeedNights == {2}
SeedRatings == {3, 5}

----------------------------------------------------------------------------
(* The external gateway (Chapa) *)

\* What requests.post / requests.get may come back with.  kind:
\*   "raise"   the call raises (connection error, timeout)
\*   "nojson"  the body is not JSON: response.json() raises
\*   "nondict" the body is JSON but not an object: resp_json.get raises
\*   "dict"    a JSON object; status is its "status" key (None: no such key),
\*             tx_ref is data.tx_ref (None: no "data" or no "tx_ref" key),
\*             checkout_url says whether data.checkout_url is there.
\* The answers to transaction/initialize, the call whose "data" initiate reads.
InitializeResponses ==
    [kind : {"raise", "nojson", "nondict"}, status : {None}, tx_ref : {None},
     checkout_url : {FALSE}]
    \cup
    [kind : {"dict"}, status : {"success", "failed", None}, tx_ref : Refs,
     checkout_url : BOOLEAN]
    \cup
    [kind : {"dict"}, status : {"success", "failed", None}, tx_ref : {None},
     checkout_url : {FALSE}]

\* The answers to transaction/verify/{tx_ref}, of which verify reads "status" only.
VerifyResponses ==
    [kind : {"raise", "nojson", "nondict"}, status : {None}, tx_ref : {None},
     checkout_url : {FALSE}]
    \cup
    [kind : {"dict"}, status : {"success", "failed", None}, tx_ref : {None},
     checkout_url : {FALSE}]

NoGateway == [kind |-> None, status |-> None, tx_ref |-> None, checkout_url |-> FALSE]

\* resp_json = response.json() went through and resp_json.get("status") can be asked.
HasJson(gw) == gw.kind = "dict"

----------------------------------------------------------------------------
(* Payment *)

\* CheckConstraint valid_payment_amount, and the NOT NULL columns.
PaymentRowOk(booking_reference, amount) ==
    /\ booking_reference # None
    /\ amount # NoNumber
    /\ amount[1] >= 0

\* Payment.objects.get(transaction_id=tx_ref): the rows the filter selects
\* (an exact lookup with None is IS NULL).
PaymentsByTx(tx_ref) == {p \in payments : p.transaction_id = tx_ref}

\* A handler's answer: the operation, the caller (None where the handler does not
\* read request.user), the tx_ref a verify request named (for a review the comment
\* it gave), the row id the request named or created (0: none), the gateway's
\* answer to the handler, the HTTP status and what the body says.
Answer(op, user, ref, id, gw, code, body) ==
    [op |-> op, user |-> user, ref |-> ref, nums |-> <<>>, id |-> id, gw |-> gw,
     code |-> code, body |-> body]

\* The answer of a handler that calls no gateway, recorded with the numbers of the
\* request (nums) the properties below read.
LocalAnswer(op, user, nums, id, code, body) ==
    [op |-> op, user |-> user, ref |-> None, nums |-> nums, id |-> id, gw |-> NoGateway,
     code |-> code, body |-> body]

InitiateSucceeded_AnyButFailed(gw) == gw.status # "failed"

\* resp_json.get("status") == "success" in initiate.
InitiateSucceeded(gw) == gw.status = "success"

\* PaymentViewSet.initiate
initiate(booking_ref, amount, gw) ==
    /\ IF ~HasJson(gw)
       THEN \* requests.post, response.json() or resp_json.get raised
            /\ response' = Answer("initiate", None, None, 0, gw, 500, "exception")
            /\ UNCHANGED <<payments, paymentSeq>>
       ELSE IF ~InitiateSucceeded(gw)
       THEN /\ response' = Answer("initiate", None, None, 0, gw, 400,
                                  "Payment initiation failed")
            /\ UNCHANGED <<payments, paymentSeq>>
       ELSE IF gw.tx_ref = None
       THEN \* resp_json["data"]["tx_ref"] raised KeyError
            /\ response' = Answer("initiate", None, None, 0, gw, 500, "exception")
            /\ UNCHANGED <<payments, paymentSeq>>
       ELSE IF ~PaymentRowOk(booking_ref, amount)
       THEN \* Payment.objects.create raised IntegrityError
            /\ response' = Answer("initiate", None, None, 0, gw, 500, "exception")
            /\ UNCHANGED <<payments, paymentSeq>>
       ELSE /\ paymentSeq < MaxPayments
            /\ paymentSeq' = paymentSeq + 1
            /\ payments' = payments \cup
                   {[id |-> paymentSeq + 1, booking_reference |-> booking_ref,
                     amount |-> amount[1], transaction_id |-> gw.tx_ref,
                     status |-> "Pending"]}
            /\ IF gw.checkout_url
               THEN response' = Answer("initiate", None, None, 0, gw, 200,
                                       "checkout_url")
               ELSE \* resp_json["data"]["checkout_url"] raised KeyError after the create
                    response' = Answer("initiate", None, None, 0, gw, 500,
                                       "exception")
    /\ UNCHANGED listingVars

VerifiedStatus_AnyButFailed(gw) == IF gw.status # "failed" THEN "Completed" ELSE "Failed"

\* The status verify writes for a gateway answer.
VerifiedStatus(gw) == IF gw.status = "success" THEN "Completed" ELSE "Failed"

\* PaymentViewSet.verify
verify(tx_ref, gw) ==
    /\ IF gw.kind \in {"raise", "nojson"}
       THEN \* requests.get or response.json() raised, before the try block
            /\ response' = Answer("verify", None, tx_ref, 0, gw, 500, "exception")
            /\ UNCHANGED payments
       ELSE IF PaymentsByTx(tx_ref) = {}
       THEN \* Payment.DoesNotExist
            /\ response' = Answer("verify", None, tx_ref, 0, gw, 404, "Transaction not found")
            /\ UNCHANGED payments
       ELSE IF Cardinality(PaymentsByTx(tx_ref)) > 1
       THEN \* Payment.MultipleObjectsReturned, caught by except Exception
            /\ response' = Answer("verify", None, tx_ref, 0, gw, 500, "exception")
            /\ UNCHANGED payments
       ELSE IF ~HasJson(gw)
       THEN \* resp_json.get raised AttributeError, caught by except Exception
            /\ response' = Answer("verify", None, tx_ref, 0, gw, 500, "exception")
            /\ UNCHANGED payments
       ELSE LET payment == CHOOSE p \in PaymentsByTx(tx_ref) : TRUE
            IN  /\ payments' = (payments \ {payment}) \cup
                       {[payment EXCEPT !.status = VerifiedStatus(gw)]}
                /\ response' = Answer("verify", None, tx_ref, 0, gw, 200,
                                      IF gw.status = "success" THEN "Payment successful"
                                                               ELSE "Payment failed")
    /\ UNCHANGED paymentSeq
    /\ UNCHANGED listingVars

\* PaymentViewSet.create (ModelViewSet, POST /payments/): data gives booking_reference
\* and amount (None: the key is missing), the fields PaymentSerializer lets a request
\* write; transaction_id and status are among its read_only_fields.
PaymentCreate(data) ==
    /\ IF data.booking_reference = None \/ data.amount = NoNumber
       THEN \* serializer.is_valid: required field
            /\ response' = Answer("payment_create", None, None, 0, NoGateway, 400, "invalid")
            /\ UNCHANGED <<payments, paymentSeq>>
       ELSE IF ~PaymentRowOk(data.booking_reference, data.amount)
       THEN /\ response' = Answer("payment_create", None, None, 0, NoGateway, 500,
                                  "exception")
            /\ UNCHANGED <<payments, paymentSeq>>
       ELSE /\ paymentSeq < MaxPayments
            /\ paymentSeq' = paymentSeq + 1
            /\ payments' = payments \cup
                   {[id |-> paymentSeq + 1, booking_reference |-> data.booking_reference,
                     amount |-> data.amount[1], transaction_id |-> None,
                     status |-> "Pending"]}
            /\ response' = Answer("payment_create", None, None, paymentSeq + 1, NoGateway, 201,
                                  "created")
    /\ UNCHANGED listingVars

\* PaymentViewSet.update / partial_update (PUT, PATCH /payments/{id}/): a key of data
\* that is None is left as it is (PUT requires both keys).
PaymentUpdate(id, partial, data) ==
    /\ IF \A p \in payments : p.id # id
       THEN /\ response' = Answer("payment_update", None, None, id, NoGateway, 404, "not found")
            /\ UNCHANGED payments
       ELSE LET payment == CHOOSE p \in payments : p.id = id
                new == [payment EXCEPT
                          !.booking_reference = IF data.booking_reference = None THEN @
                                                ELSE data.booking_reference,
                          !.amount = IF data.amount = NoNumber THEN @ ELSE data.amount[1]]
            IN  IF ~partial /\ (data.booking_reference = None \/ data.amount = NoNumber)
                THEN /\ response' = Answer("payment_update", None, None, id, NoGateway, 400,
                                           "invalid")
                     /\ UNCHANGED payments
                ELSE IF ~PaymentRowOk(new.booking_reference, Number(new.amount))
                THEN /\ response' = Answer("payment_update", None, None, id, NoGateway, 500,
                                           "exception")
                     /\ UNCHANGED payments
                ELSE /\ payments' = (payments \ {payment}) \cup {new}
                     /\ response' = Answer("payment_update", None, None, id, NoGateway, 200,
                                           "updated")
    /\ UNCHANGED paymentSeq
    /\ UNCHANGED listingVars

\* PaymentViewSet.destroy (DELETE /payments/{id}/)
PaymentDestroy(id) ==
    /\ IF \A p \in payments : p.id # id
       THEN /\ response' = Answer("payment_destroy", None, None, id, NoGateway, 404, "not found")
            /\ UNCHANGED payments
       ELSE /\ payments' = {p \in payments : p.id # id}
            /\ response' = Answer("payment_destroy", None, None, id, NoGateway, 204, "deleted")
    /\ UNCHANGED paymentSeq
    /\ UNCHANGED listingVars

PaymentData == [booking_reference : Refs \cup {None}, amount : Optional(Amounts)]

----------------------------------------------------------------------------
(* Listing *)

ListingIds == 1..MaxListings

HasListing(id) == \E l \in listings : l.id = id
ListingOf(id) == CHOOSE l \in listings : l.id = id

\* What a request to the listing endpoints carries of the fields ListingSerializer
\* lets it write: price_per_night and available (NoNumber: the key is missing).
ListingData == [price_per_night : Optional(ListingPrices), available : Optional(BOOLEAN)]

\* MinValueValidator(Decimal('0.00')) of Listing.price_per_night.
ListingPriceValid(price) == price >= 0

\* IsHostOrReadOnly.has_object_permission for an unsafe method.
IsHost(user, listing) == listing.host = user

\* on_delete=models.CASCADE of Booking.listing and Review.listing.
CascadeListing(rows, id) == {r \in rows : r.listing # id}

\* ListingViewSet.create with perform_create (POST /listings/)
ListingCreate(user, title, data) ==
    /\ IF data.price_per_night = NoNumber
          \/ ~ListingPriceValid(data.price_per_night[1])
       THEN /\ response' = LocalAnswer("listing_create", user, <<>>, 0, 400, "invalid")
            /\ UNCHANGED <<listings, listingSeq>>
       ELSE /\ listingSeq < MaxListings
            /\ listingSeq' = listingSeq + 1
            /\ listings' = listings \cup
                   {[id |-> listingSeq + 1, host |-> user, title |-> title,
                     price_per_night |-> data.price_per_night[1],
                     available |-> IF data.available = NoNumber THEN TRUE
                                   ELSE data.available[1]]}
            /\ response' = LocalAnswer("listing_create", user, <<>>, listingSeq + 1, 201,
                                       "created")
    /\ UNCHANGED <<bookings, reviews, queue, bookingSeq, reviewSeq, payments, paymentSeq>>

\* ListingViewSet.update / partial_update (PUT, PATCH /listings/{id}/)
ListingUpdate(user, id, partial, data) ==
    /\ IF ~HasListing(id)
       THEN /\ response' = LocalAnswer("listing_update", user, <<>>, id, 404, "not found")
            /\ UNCHANGED listings
       ELSE IF ~IsHost(user, ListingOf(id))
       THEN /\ response' = LocalAnswer("listing_update", user, <<>>, id, 403, "forbidden")
            /\ UNCHANGED listings
       ELSE IF \/ ~partial /\ data.price_per_night = NoNumber
               \/ data.price_per_night # NoNumber
                  /\ ~ListingPriceValid(data.price_per_night[1])
       THEN /\ response' = LocalAnswer("listing_update", user, <<>>, id, 400, "invalid")
            /\ UNCHANGED listings
       ELSE /\ listings' = (listings \ {ListingOf(id)}) \cup
                   {[ListingOf(id) EXCEPT
                       !.price_per_night = IF data.price_per_night = NoNumber THEN @
                                           ELSE data.price_per_night[1],
                       !.available = IF data.available = NoNumber THEN @
                                     ELSE data.available[1]]}
            /\ response' = LocalAnswer("listing_update", user, <<>>, id, 200, "updated")
    /\ UNCHANGED <<bookings, reviews, queue, listingSeq, bookingSeq, reviewSeq,
                   payments, paymentSeq>>

\* ListingViewSet.destroy (DELETE /listings/{id}/)
ListingDestroy(user, id) ==
    /\ IF ~HasListing(id)
       THEN /\ response' = LocalAnswer("listing_destroy", user, <<>>, id, 404, "not found")
            /\ UNCHANGED <<listings, bookings, reviews>>
       ELSE IF ~IsHost(user, ListingOf(id))
       THEN /\ response' = LocalAnswer("listing_destroy", user, <<>>, id, 403, "forbidden")
            /\ UNCHANGED <<listings, bookings, reviews>>
       ELSE /\ listings' = listings \ {ListingOf(id)}
            /\ bookings' = CascadeListing(bookings, id)
            /\ reviews' = CascadeListing(reviews, id)
            /\ response' = LocalAnswer("listing_destroy", user, <<>>, id, 204, "deleted")
    /\ UNCHANGED <<queue, listingSeq, bookingSeq, reviewSeq, payments, paymentSeq>>

----------------------------------------------------------------------------
(* Booking *)

STATUS_PENDING == "pending"
STATUS_CONFIRMED == "confirmed"
STATUS_CANCELLED == "cancelled"
STATUS_CHOICES == {STATUS_PENDING, STATUS_CONFIRMED, STATUS_CANCELLED}

BookingIds == 1..MaxBookings

HasBooking(id) == \E b \in bookings : b.id = id
BookingOf(id) == CHOOSE b \in bookings : b.id = id

\* What a request to the booking endpoints carries of the fields BookingSerializer
\* lets it write (NoNumber, None: the key is missing).
BookingData ==
    [listing_id : Optional(ListingIds), start_date : Optional(Dates),
     end_date : Optional(Dates), total_price : Optional(TotalPrices),
     status : STATUS_CHOICES \cup {None}]

\* Requests that give listing_id and both dates (POST and PUT bodies).
BookingFullData ==
    {d \in BookingData : /\ d.listing_id # NoNumber
                         /\ d.start_date # NoNumber
                         /\ d.end_date # NoNumber}

Given(d) == Cardinality({f \in {"listing_id", "start_date", "end_date", "total_price"} :
                            d[f] # NoNumber})
            + (IF d.status # None THEN 1 ELSE 0)

\* PATCH bodies: one key.  A PATCH that gives several keys writes what the PUT with
\* the row's other values writes.
BookingPatchData == {d \in BookingData : Given(d) = 1}

\* BookingSerializer.is_valid: the required keys are there (unless partial),
\* listing_id is the key of a Listing (queryset=Listing.objects.all()), total_price
\* passes MinValueValidator(Decimal('0.00')).
BookingDataValid(d, partial) ==
    /\ partial \/ (/\ d.listing_id # NoNumber
                   /\ d.start_date # NoNumber
                   /\ d.end_date # NoNumber
                   /\ d.total_price # NoNumber)
    /\ d.listing_id # NoNumber => HasListing(d.listing_id[1])
    /\ d.total_price # NoNumber => d.total_price[1] >= 0

BookingRowOk_Gte(b) == b.end_date >= b.start_date

\* CheckConstraint valid_booking_dates.
BookingRowOk(b) == b.end_date > b.start_date

\* What the answer records of the request: its two dates, when it gives both.
RequestDates(d) == IF d.start_date # NoNumber /\ d.end_date # NoNumber
                   THEN <<d.start_date[1], d.end_date[1]>> ELSE <<>>

\* BookingViewSet.create with perform_create (POST /bookings/)
BookingCreate(user, data) ==
    LET new == [id |-> bookingSeq + 1, listing |-> data.listing_id[1], guest |-> user,
                start_date |-> data.start_date[1], end_date |-> data.end_date[1],
                total_price |-> data.total_price[1],
                status |-> IF data.status = None THEN STATUS_PENDING ELSE data.status]
    IN
    /\ IF ~BookingDataValid(data, FALSE)
       THEN /\ response' = LocalAnswer("booking_create", user, RequestDates(data), 0,
                                       400, "invalid")
            /\ UNCHANGED <<bookings, bookingSeq>>
       ELSE IF ~BookingRowOk(new)
       THEN \* Booking.objects.create raised IntegrityError
            /\ response' = LocalAnswer("booking_create", user, RequestDates(data), 0,
                                       500, "exception")
            /\ UNCHANGED <<bookings, bookingSeq>>
       ELSE /\ bookingSeq < MaxBookings
            /\ bookingSeq' = bookingSeq + 1
            /\ bookings' = bookings \cup {new}
            /\ response' = LocalAnswer("booking_create", user, RequestDates(data),
                                       bookingSeq + 1, 201, "created")
    /\ UNCHANGED <<listings, reviews, queue, listingSeq, reviewSeq, payments, paymentSeq>>

\* BookingViewSet.update / partial_update (PUT, PATCH /bookings/{id}/)
BookingUpdate(id, partial, data) ==
    /\ IF ~HasBooking(id)
       THEN /\ response' = LocalAnswer("booking_update", None, RequestDates(data), id,
                                       404, "not found")
            /\ UNCHANGED bookings
       ELSE IF ~BookingDataValid(data, partial)
       THEN /\ response' = LocalAnswer("booking_update", None, RequestDates(data), id,
                                       400, "invalid")
            /\ UNCHANGED bookings
       ELSE LET old == BookingOf(id)
                new == [old EXCEPT
                          !.listing = IF data.listing_id = NoNumber THEN @
                                      ELSE data.listing_id[1],
                          !.start_date = IF data.start_date = NoNumber THEN @
                                         ELSE data.start_date[1],
                          !.end_date = IF data.end_date = NoNumber THEN @
                                       ELSE data.end_date[1],
                          !.total_price = IF data.total_price = NoNumber THEN @
                                          ELSE data.total_price[1],
                          !.status = IF data.status = None THEN @ ELSE data.status]
            IN  IF ~BookingRowOk(new)
                THEN \* instance.save() raised IntegrityError
                     /\ response' = LocalAnswer("booking_update", None,
                                                RequestDates(data), id, 500, "exception")
                     /\ UNCHANGED bookings
                ELSE /\ bookings' = (bookings \ {old}) \cup {new}
                     /\ response' = LocalAnswer("booking_update", None,
                                                RequestDates(data), id, 200, "updated")
    /\ UNCHANGED <<listings, reviews, queue, listingSeq, bookingSeq, reviewSeq,
                   payments, paymentSeq>>

\* BookingViewSet.destroy (DELETE /bookings/{id}/)
BookingDestroy(id) ==
    /\ IF ~HasBooking(id)
       THEN /\ response' = LocalAnswer("booking_destroy", None, <<>>, id, 404, "not found")
            /\ UNCHANGED bookings
       ELSE /\ bookings' = bookings \ {BookingOf(id)}
            /\ response' = LocalAnswer("booking_destroy", None, <<>>, id, 204, "deleted")
    /\ UNCHANGED <<listings, reviews, queue, listingSeq, bookingSeq, reviewSeq,
                   payments, paymentSeq>>

----------------------------------------------------------------------------
(* Review *)

ReviewIds == 1..MaxListings

HasReview(id) == \E r \in reviews : r.id = id
ReviewOf(id) == CHOOSE r \in reviews : r.id = id

\* What a request to the review endpoints carries: the listing the caller reviews
\* (a key ReviewSerializer has no field for, so it is dropped), rating and comment
\* (NoNumber, None: the key is missing).
ReviewData == [listing : ListingIds, rating : Optional(Ratings), comment : Comments]

\* The fields of ReviewSerializer a request can write.
ReviewWritable == {"rating", "comment"}

\* What ReviewSerializer hands to save(): the listing is not among its fields.
ReviewValidatedListing(data) ==
    IF "listing" \in ReviewWritable THEN Number(data.listing) ELSE NoNumber

\* MinValueValidator(1), MaxValueValidator(5) of Review.rating.
RatingValid(rating) == rating >= 1 /\ rating <= 5

\* The NOT NULL listing column, valid_rating_range and unique_together of Review.
ReviewRowOk(listing, user, rating, others) ==
    /\ listing # NoNumber
    /\ RatingValid(rating)
    /\ \A r \in others : ~(r.listing = listing[1] /\ r.user = user)

\* ReviewViewSet.create with perform_create (POST /reviews/)
ReviewCreate(user, data) ==
    /\ IF data.rating = NoNumber \/ ~RatingValid(data.rating[1])
       THEN /\ response' = [LocalAnswer("review_create", user,
                                        <<data.listing>> \o data.rating, 0, 400, "invalid")
                            EXCEPT !.ref = data.comment]
            /\ UNCHANGED <<reviews, reviewSeq>>
       ELSE IF ~ReviewRowOk(ReviewValidatedListing(data), user, data.rating[1], reviews)
       THEN \* Review.objects.create raised IntegrityError
            /\ response' = [LocalAnswer("review_create", user,
                                        <<data.listing>> \o data.rating, 0, 500,
                                        "exception")
                            EXCEPT !.ref = data.comment]
            /\ UNCHANGED <<reviews, reviewSeq>>
       ELSE /\ reviewSeq' = reviewSeq + 1
            /\ reviews' = reviews \cup
                   {[id |-> reviewSeq + 1, listing |-> ReviewValidatedListing(data)[1],
                     user |-> user, rating |-> data.rating[1], comment |-> data.comment]}
            /\ response' = [LocalAnswer("review_create", user,
                                        <<data.listing>> \o data.rating, reviewSeq + 1,
                                        201, "created")
                            EXCEPT !.ref = data.comment]
    /\ UNCHANGED <<listings, bookings, queue, listingSeq, bookingSeq, payments, paymentSeq>>

\* ReviewViewSet.update / partial_update (PUT, PATCH /reviews/{id}/): PUT requires
\* rating; the comment is written as given.
ReviewUpdate(id, partial, data) ==
    /\ IF ~HasReview(id)
       THEN /\ response' = LocalAnswer("review_update", None, <<>>, id, 404, "not found")
            /\ UNCHANGED reviews
       ELSE IF \/ ~partial /\ data.rating = NoNumber
               \/ data.rating # NoNumber /\ ~RatingValid(data.rating[1])
       THEN /\ response' = LocalAnswer("review_update", None, <<>>, id, 400, "invalid")
            /\ UNCHANGED reviews
       ELSE /\ reviews' = (reviews \ {ReviewOf(id)}) \cup
                   {[ReviewOf(id) EXCEPT
                       !.rating = IF data.rating = NoNumber THEN @ ELSE data.rating[1],
                       !.comment = data.comment]}
            /\ response' = LocalAnswer("review_update", None, <<>>, id, 200, "updated")
    /\ UNCHANGED <<listings, bookings, queue, listingSeq, bookingSeq, reviewSeq,
                   payments, paymentSeq>>

\* ReviewViewSet.destroy (DELETE /reviews/{id}/)
ReviewDestroy(id) ==
    /\ IF ~HasReview(id)
       THEN /\ response' = LocalAnswer("review_destroy", None, <<>>, id, 404, "not found")
            /\ UNCHANGED reviews
       ELSE /\ reviews' = reviews \ {ReviewOf(id)}
            /\ response' = LocalAnswer("review_destroy", None, <<>>, id, 204, "deleted")
    /\ UNCHANGED <<listings, bookings, queue, listingSeq, bookingSeq, reviewSeq,
                   payments, paymentSeq>>

----------------------------------------------------------------------------
(* The average rating of a listing.  A float is the fraction num / den. *)

\* obj.reviews: the Review rows of a listing (related_name='reviews').
ReviewsOfListing(id) == {r \in reviews : r.listing = id}

\* SUM(rating) over rows.
RECURSIVE SumRatings(_)
SumRatings(rows) ==
    IF rows = {} THEN 0
    ELSE LET r == CHOOSE x \in rows : TRUE
         IN  r.rating + SumRatings(rows \ {r})

\* aggregate(avg=Avg('rating')).get('avg'): NoNumber (None) over no rows, else
\* the sum of the ratings over their number.
Avg(rows) == IF rows = {} THEN NoNumber ELSE <<SumRatings(rows), Cardinality(rows)>>

get_average_rating_NoDefault(id) ==
    LET avg == Avg(ReviewsOfListing(id))
    IN  IF avg = NoNumber THEN <<0, 0>> ELSE avg

\* ListingSerializer.get_average_rating: avg or 0.0 (None and 0 are falsy).
get_average_rating(id) ==
    LET avg == Avg(ReviewsOfListing(id))
    IN  IF avg = NoNumber \/ avg[1] = 0 THEN <<0, 1>> ELSE avg

\* ListingViewSet.retrieve (GET /listings/{id}/): the answer carries average_rating.
ListingRetrieve(id) ==
    /\ IF ~HasListing(id)
       THEN response' = LocalAnswer("listing_retrieve", None, <<>>, id, 404, "not found")
       ELSE response' = LocalAnswer("listing_retrieve", None, get_average_rating(id), id,
                                    200, "listing")
    /\ UNCHANGED <<listings, bookings, reviews, queue, listingSeq, bookingSeq, reviewSeq,
                   payments, paymentSeq>>

----------------------------------------------------------------------------
(* The seed command.  A db is the tables and id counters it works on. *)

\* date.today() as a day number.
today == 0

\* The e-mail addresses the seed command gives its two accounts.
Email(user) == IF user = HOST_USER THEN "host@example.com" ELSE "guest@example.com"

\* Review.objects.update_or_create(listing=, user=, defaults={rating, comment})
update_or_create(db, listing, user, rating, comment) ==
    IF \E r \in db.reviews : r.listing = listing /\ r.user = user
    THEN [db EXCEPT !.reviews =
             {IF r.listing = listing /\ r.user = user
              THEN [r EXCEPT !.rating = rating, !.comment = comment] ELSE r :
              r \in db.reviews}]
    ELSE [db EXCEPT !.reviews = @ \cup {[id |-> db.reviewSeq + 1, listing |-> listing,
                                         user |-> user, rating |-> rating,
                                         comment |-> comment]},
                    !.reviewSeq = @ + 1]

\* Command._create_reviews from its k-th round on: the dbs it may end with.
RECURSIVE create_reviews(_, _, _, _, _)
create_reviews(dbs, listing, guest, count, k) ==
    IF k >= count THEN dbs
    ELSE create_reviews({update_or_create(db, listing, guest, rating, comment) :
                            db \in dbs, rating \in SeedRatings, comment \in Comments},
                        listing, guest, count, k + 1)

\* Command._create_bookings from its j-th round on: the dbs it may end with.
RECURSIVE create_bookings(_, _, _, _, _, _)
create_bookings(dbs, listing, guest, count, offset, j) ==
    IF j >= count THEN dbs
    ELSE create_bookings(
             {LET start == today + offset + j * 3
                  end == start + nights
                  num_days == end - start
              IN  [db EXCEPT !.bookings = @ \cup
                       {[id |-> db.bookingSeq + 1, listing |-> listing.id,
                         guest |-> guest, start_date |-> start, end_date |-> end,
                         total_price |-> listing.price_per_night * num_days,
                         status |-> STATUS_CONFIRMED]},
                             !.bookingSeq = @ + 1] :
              db \in dbs, nights \in SeedNights},
             listing, guest, count, offset, j + 1)

\* Command.handle from its i-th listing on: the dbs it may end with.
RECURSIVE handle_loop(_, _, _, _, _)
handle_loop(dbs, count, review_count, booking_count, i) ==
    IF i >= count THEN dbs
    ELSE handle_loop(
             UNION {LET listing == [id |-> db.listingSeq + 1, host |-> HOST_USER,
                                    title |-> title, price_per_night |-> price,
                                    available |-> TRUE]
                        created == [db EXCEPT !.listings = @ \cup {listing},
                                              !.listingSeq = @ + 1]
                    IN  create_reviews(
                            create_bookings({created}, listing, GUEST_USER,
                                            booking_count, i, 0),
                            listing.id, GUEST_USER, review_count, 0) :
                    db \in dbs, title \in Titles, price \in SeedPrices},
             count, review_count, booking_count, i + 1)

\* Command.handle (manage.py seed --count --reviews --bookings), one transaction.
handle(count, review_count, booking_count) ==
    /\ listingSeq + count <= MaxListings
    /\ bookingSeq + count * booking_count <= MaxBookings
    /\ \E db \in handle_loop({[listings |-> listings, bookings |-> bookings,
                                reviews |-> reviews, listingSeq |-> listingSeq,
                                bookingSeq |-> bookingSeq, reviewSeq |-> reviewSeq]},
                              count, review_count, booking_count, 0) :
          /\ listings' = db.listings
          /\ bookings' = db.bookings
          /\ reviews' = db.reviews
          /\ listingSeq' = db.listingSeq
          /\ bookingSeq' = db.bookingSeq
          /\ reviewSeq' = db.reviewSeq
    /\ response' = LocalAnswer("seed", None, <<count, review_count, booking_count>>, 0, 0,
                               "Seeding complete")
    /\ UNCHANGED <<queue, payments, paymentSeq>>

SeedNext ==
    \E count \in 0..MaxListings, review_count \in 0..MaxSeedReviews,
       booking_count \in 0..MaxSeedBookings : handle(count, review_count, booking_count)

\* The seed command run with --bookings 0.
SeedReviewsNext ==
    \E count \in 0..MaxListings, review_count \in 0..MaxSeedReviews :
       handle(count, review_count, 0)

\* The seed command run with --reviews 0.
SeedBookingsNext ==
    \E count \in 0..MaxListings, booking_count \in 0..MaxSeedBookings :
       handle(count, 0, booking_count)

----------------------------------------------------------------------------

Init ==
    /\ listings = {}
    /\ bookings = {}
    /\ reviews = {}
    /\ payments = {}
    /\ queue = <<>>
    /\ listingSeq = 0
    /\ bookingSeq = 0
    /\ reviewSeq = 0
    /\ paymentSeq = 0
    /\ response = Answer(None, None, None, 0, NoGateway, 0, None)

PaymentNext ==
    \/ \E r \in Refs \cup {None}, a \in Optional(Amounts), gw \in InitializeResponses :
          initiate(r, a, gw)
    \/ \E t \in Refs \cup {None}, gw \in VerifyResponses : verify(t, gw)
    \/ \E d \in PaymentData : PaymentCreate(d)
    \/ \E id \in 1..MaxPayments, partial \in BOOLEAN, d \in PaymentData :
          PaymentUpdate(id, partial, d)
    \/ \E id \in 1..MaxPayments : PaymentDestroy(id)

PaymentSpec == Init /\ [][PaymentNext]_vars

ListingNext ==
    \/ \E u \in Users, t \in Titles, d \in ListingData : ListingCreate(u, t, d)
    \/ \E u \in Users, id \in ListingIds, partial \in BOOLEAN, d \in ListingData :
          ListingUpdate(u, id, partial, d)
    \/ \E u \in Users, id \in ListingIds : ListingDestroy(u, id)

BookingNext ==
    \/ ListingNext
    \/ SeedBookingsNext
    \/ \E u \in Users, d \in BookingFullData : BookingCreate(u, d)
    \/ \E id \in BookingIds, d \in BookingFullData : BookingUpdate(id, FALSE, d)
    \/ \E id \in BookingIds, d \in BookingPatchData : BookingUpdate(id, TRUE, d)
    \/ \E id \in BookingIds : BookingDestroy(id)

BookingSpec == Init /\ [][BookingNext]_vars

ReviewNext ==
    \/ ListingNext
    \/ SeedReviewsNext
    \/ \E u \in Users, d \in ReviewData : ReviewCreate(u, d)
    \/ \E id \in ReviewIds, partial \in BOOLEAN, d \in ReviewData :
          ReviewUpdate(id, partial, d)
    \/ \E id \in ReviewIds : ReviewDestroy(id)
    \/ \E id \in ListingIds : ListingRetrieve(id)

ReviewSpec == Init /\ [][ReviewNext]_vars

Next == PaymentNext \/ BookingNext \/ ReviewNext

Spec == Init /\ [][Next]_vars

----------------------------------------------------------------------------
(* Properties of the payment handlers *)

\* C1: a Payment that is Completed or Failed keeps that status in every later step
\* (the only status changes are Pending->Completed and Pending->Failed).
PaymentStatusIsTerminal ==
    [][\A p \in payments : \A q \in payments' :
          (q.id = p.id /\ p.status \in {"Completed", "Failed"}) => q.status = p.status]_vars

\* C2: a Payment's status changes only in a verify that got a JSON object from the
\* gateway, it becomes Completed only when that object's status is "success", and no
\* other step (a verify whose gateway call raised or gave no JSON object included)
\* changes the status of any Payment.
GatewayIsSoleAuthority ==
    [][\A p \in payments : \A q \in payments' :
          (q.id = p.id /\ q.status # p.status) =>
              /\ response'.op = "verify"
              /\ HasJson(response'.gw)
              /\ p.transaction_id = response'.ref
              /\ (q.status = "Completed" => response'.gw.status = "success")]_vars

\* C2 witness: a verify answered "success" by the gateway has completed a Payment.
VerifiedCompleted ==
    /\ response.op = "verify"
    /\ response.gw.status = "success"
    /\ response.code = 200
    /\ \E p \in payments : p.transaction_id = response.ref /\ p.status = "Completed"

\* C3: an initiate whose gateway answer does not carry status "success" leaves the
\* Payment rows as they were and answers with an error; a row an initiate adds is
\* Pending, has the gateway's tx_ref, and the gateway reported success.
InitiateFailurePersistsNothing ==
    [][response'.op = "initiate" =>
          /\ (response'.gw.status # "success" =>
                  payments' = payments /\ response'.code >= 400)
          /\ \A q \in payments' \ payments :
                  /\ q.status = "Pending"
                  /\ q.transaction_id = response'.gw.tx_ref
                  /\ response'.gw.status = "success"]_vars

\* C3 witness: an initiate the gateway answered with a failure object carrying data
\* was refused with 400 after an earlier initiate had persisted its Payment.
InitiateRefused ==
    /\ response.op = "initiate"
    /\ response.gw.kind = "dict"
    /\ response.gw.status = "failed"
    /\ response.gw.tx_ref # None
    /\ response.code = 400
    /\ Cardinality(payments) = 1

\* C4: a verify whose tx_ref matches no Payment row answers 404 and leaves every
\* Payment row as it was, whatever the gateway answered (the gateway did answer:
\* the call did not raise).
VerifyUnknownIsNotFound ==
    [][(/\ response'.op = "verify"
        /\ response'.gw.kind # "raise"
        /\ PaymentsByTx(response'.ref) = {}) =>
          (response'.code = 404 /\ payments' = payments)]_vars

----------------------------------------------------------------------------
(* Properties of the booking handlers *)

\* The rows a step adds to Booking.
NewBookings == {b \in bookings' : \A a \in bookings : a.id # b.id}

\* C5: every persisted Booking has end_date > start_date, and a booking create or
\* update whose request gives an end_date <= its start_date fails and leaves the
\* Booking rows as they were.
BookingDatesValid ==
    /\ [](\A b \in bookings : b.end_date > b.start_date)
    /\ [][(/\ response'.op \in {"booking_create", "booking_update"}
           /\ response'.nums # <<>>
           /\ response'.nums[2] <= response'.nums[1]) =>
              (response'.code >= 400 /\ bookings' = bookings)]_vars

\* C5 witness: a create with end_date = start_date for an existing listing was
\* refused by the database while a Booking is persisted.
BookingDatesRefused ==
    /\ response.op = "booking_create"
    /\ response.nums = <<2, 2>>
    /\ response.code = 500
    /\ bookings # {}

\* C6: a Booking the create handler persists has total_price = the listing's
\* price_per_night times the days from start_date to end_date, and no step changes
\* the total_price of a persisted Booking.
BookingTotalPriceIsDerived ==
    [][/\ (response'.op = "booking_create" /\ response'.code = 201) =>
              \A b \in NewBookings :
                  b.total_price =
                      ListingOf(b.listing).price_per_night * (b.end_date - b.start_date)
       /\ \A b \in bookings : \A c \in bookings' :
              c.id = b.id => c.total_price = b.total_price]_vars

\* C7: a successful booking create persists the Booking with status confirmed and
\* puts one confirmation task (guest e-mail, listing title) on the queue; a failed
\* one leaves the queue as it was.
BookingCreateConfirmsAndNotifies ==
    [][response'.op = "booking_create" =>
          IF response'.code = 201
          THEN \A b \in NewBookings :
                   /\ b.status = STATUS_CONFIRMED
                   /\ queue' = Append(queue, <<Email(b.guest),
                                               ListingOf(b.listing).title>>)
          ELSE queue' = queue]_vars

\* C8: the only change of a Booking's status is confirmed -> cancelled.
BookingStatusOnlyCancels ==
    [][\A b \in bookings : \A c \in bookings' :
          (c.id = b.id /\ c.status # b.status) =>
              (b.status = STATUS_CONFIRMED /\ c.status = STATUS_CANCELLED)]_vars

\* C9: a Booking the create handler persists is for a listing that exists and is
\* available when it is created (a create naming any other listing persists none).
BookingOnlyForAvailableListing ==
    [][response'.op = "booking_create" =>
          \A b \in NewBookings :
              HasListing(b.listing) /\ ListingOf(b.listing).available]_vars

----------------------------------------------------------------------------
(* Properties of the review handlers *)

\* C10: after a user's review submission for an existing listing (rating 1..5)
\* exactly one Review row exists for that (listing, user) pair, and it holds the
\* rating and comment just submitted.
ReviewSubmissionUpserts ==
    [][(/\ response'.op = "review_create"
        /\ Len(response'.nums) = 2
        /\ RatingValid(response'.nums[2])
        /\ HasListing(response'.nums[1])) =>
           LET mine == {r \in reviews' : /\ r.listing = response'.nums[1]
                                         /\ r.user = response'.user}
           IN  /\ Cardinality(mine) = 1
               /\ \A r \in mine : /\ r.rating = response'.nums[2]
                                   /\ r.comment = response'.ref]_vars

----------------------------------------------------------------------------
(* Properties of the payment rows *)

\* C12: at most one Payment row carries any given transaction_id the gateway
\* assigned, so that the lookup of verify finds one row or none.
TransactionIdIsUnique ==
    \A p \in payments : \A q \in payments :
        (p.transaction_id # None /\ p.transaction_id = q.transaction_id) => p.id = q.id

====
